---- MODULE Spec2Model ----
(***************************************************************************)
(* Model of two components of the packager:                                *)
(*   - mp4::Fragmenter (packager/media/formats/mp4/fragmenter.cc): the     *)
(*     builder that accumulates samples into a TrackFragment and derives   *)
(*     a SegmentReference;                                                 *)
(*   - AVCDecoderConfigurationRecord::ParseInternal                        *)
(*     (packager/media/codecs/avc_decoder_configuration_record.cc).        *)
(* Spec    is the state machine of one Fragmenter bound to one             *)
(*         TrackFragment.                                                  *)
(* SpecAvc is the state machine of one AVCDecoderConfigurationRecord.      *)
(***************************************************************************)
EXTENDS Integers, Sequences, FiniteSets, TLC

VARIABLES
  use_decoding_timestamp, \* FLAGS_mp4_use_decoding_timestamp_in_timeline
  stream_info,            \* the StreamInfo the Fragmenter was constructed on
  seek_preroll_,          \* Fragmenter::seek_preroll_
  fragment_initialized_,  \* Fragmenter::fragment_initialized_
  fragment_finalized_,    \* Fragmenter::fragment_finalized_
  fragment_duration_,     \* Fragmenter::fragment_duration_
  earliest_presentation_time_,
  first_sap_time_,
  data_,                  \* Fragmenter::data_ (payload buffer), as its size
  traf,                   \* the caller-owned TrackFragment *traf_
  reference,              \* the caller's SegmentReference out-parameter
  added,                  \* history: samples added since InitializeFragment
  since_finalize,         \* history: samples added since the constructor,
                          \* the last FinalizeFragment or the last call of
                          \* InitializeFragment by the caller
  aborted,                \* the process was ended by a failed CHECK
  builders,               \* two Fragmenters of one process, by number
  trafs,                  \* the TrackFragments the two are bound to
  calls,                  \* history: the calls made on each of the two
  record,                 \* the AVCDecoderConfigurationRecord members
  parse_ok                \* result of the last Parse ("none" before any)

fragVars == <<use_decoding_timestamp, stream_info, seek_preroll_,
              fragment_initialized_,
              fragment_finalized_, fragment_duration_,
              earliest_presentation_time_, first_sap_time_, data_, traf,
              reference, added, since_finalize, aborted>>
twoVars == <<builders, trafs, calls>>
avcVars == <<record, parse_ok>>
vars == <<fragVars, twoVars, avcVars,
                 twoVars>>

----------------------------------------------------------------------------
(* Bounds of the model.                                                    *)

MaxSamples == 2          \* samples added to one fragment
MaxDescriptions == 1     \* sample group descriptions attached to a fragment
MaxCalls == 3            \* calls made on each of two builders side by side

----------------------------------------------------------------------------
(* Program constants.                                                      *)

(* kInvalidTime is std::numeric_limits<int64_t>::max(); the model's integers *)
(* are 32 bits wide, so the largest of them stands for it: it is the       *)
(* greatest timestamp a sample can carry, as in the program.               *)
kInvalidTime == 2147483647
kNonKeySampleMask == 65536            \* TrackFragmentHeader::kNonKeySampleMask
kTrackGroupDescriptionIndexBase == 0
kTrackFragmentGroupDescriptionIndexBase == 65536

(* Inputs of the fragment builder. *)
PtsValues == {0, 1, kInvalidTime}
DtsValues == {0, 1}
DurationValues == {1, 2}
SizeValues == {1, 2}
SeekPrerollValues == {0, 5}
(* A video stream carries no seek preroll; its field is never read. *)
StreamInfos ==
  {[stream_type |-> "video", seek_preroll_ns |-> 0]} \cup
  [stream_type : {"audio"}, seek_preroll_ns : SeekPrerollValues]
GroupingTypes == {"seig", "rap "}

(* The samples handed to AddSample: a reference sample and every sample    *)
(* that differs from it in one attribute.                                  *)
BaseSample ==
  [pts |-> 0, dts |-> 0, duration |-> 1, data_size |-> 1,
   is_key_frame |-> TRUE]

NonPositiveDurations == {0, -1}

(* The samples AddSample refuses. *)
RejectedSamples ==
  {[BaseSample EXCEPT !.duration = d] : d \in NonPositiveDurations}

MediaSamples ==
  {s \in [pts : PtsValues, dts : DtsValues, duration : DurationValues,
          data_size : SizeValues, is_key_frame : BOOLEAN] :
     Cardinality({f \in DOMAIN BaseSample : s[f] # BaseSample[f]}) <= 1}

NullBuffer == -1
NoReference == [valid |-> FALSE]

----------------------------------------------------------------------------
(* The fragment builder: helpers.                                          *)

EmptyRun ==
  [flags |-> {}, sample_count |-> 0, sample_sizes |-> <<>>,
   sample_durations |-> <<>>, sample_flags |-> <<>>,
   sample_composition_time_offsets |-> <<>>]

(* A default-constructed TrackFragment, as the caller hands it over. *)
EmptyTraf ==
  [header |-> [flags |-> {}, sample_description_index |-> 0,
               default_sample_duration |-> 0, default_sample_size |-> 0,
               default_sample_flags |-> 0],
   decode_time |-> 0,
   runs |-> <<>>,
   sample_group_descriptions |-> <<>>,
   sample_to_groups |-> <<>>]

(* GetSeekPreroll: 0 for a non-audio stream, seek_preroll_ns() otherwise. *)
GetSeekPreroll(info) ==
  IF info.stream_type # "audio" THEN 0 ELSE info.seek_preroll_ns

(* sample->is_key_frame() ? 0 : TrackFragmentHeader::kNonKeySampleMask *)
SampleFlagsOf(is_key_frame) ==
  IF is_key_frame THEN 0 ELSE kNonKeySampleMask

(* FLAGS_mp4_use_decoding_timestamp_in_timeline ? dts : pts *)
SelectedTimestamp(use_dts, pts, dts) ==
  IF use_dts THEN dts ELSE pts


(* UpdateEarliest with the comparison turned round. *)
UpdateEarliest_Latest(earliest, timestamp) ==
  IF earliest = kInvalidTime \/ earliest < timestamp THEN timestamp
  ELSE earliest

(* if (earliest_presentation_time_ > timestamp) earliest_... = timestamp *)
UpdateEarliest(earliest, timestamp) ==
  IF earliest > timestamp THEN timestamp ELSE earliest

(* if (pts != dts) runs[0].flags |= kSampleCompTimeOffsetsPresentMask *)
UpdateCompOffsetFlag(flags, pts, dts) ==
  IF pts # dts THEN flags \cup {"kSampleCompTimeOffsetsPresentMask"}
  ELSE flags

(* if (is_key_frame) if (first_sap_time_ == kInvalidTime) first_sap = pts *)
UpdateFirstSap(first_sap, is_key_frame, pts) ==
  IF is_key_frame /\ first_sap = kInvalidTime THEN pts ELSE first_sap


(* InitializedTraf without runs.clear(): resize(1) keeps the old run. *)
InitializedTraf_KeepsRun(t, first_sample_dts) ==
  [t EXCEPT
     !.decode_time = first_sample_dts,
     !.runs = IF t.runs = <<>>
                THEN <<[EmptyRun EXCEPT !.flags = {"kDataOffsetPresentMask"}]>>
              ELSE <<[t.runs[1] EXCEPT !.flags = {"kDataOffsetPresentMask"}]>>,
     !.sample_group_descriptions = <<>>,
     !.sample_to_groups = <<>>,
     !.header.sample_description_index = 1,
     !.header.flags = {"kDefaultBaseIsMoofMask",
                       "kSampleDescriptionIndexPresentMask"}]

(* InitializedTraf with runs[0].flags |= instead of =, on the old flags. *)
InitializedTraf_OrsRunFlags(t, first_sample_dts) ==
  [t EXCEPT
     !.decode_time = first_sample_dts,
     !.runs = <<[EmptyRun EXCEPT !.flags =
                   {"kDataOffsetPresentMask"} \cup
                   (IF t.runs = <<>> THEN {} ELSE t.runs[1].flags)]>>,
     !.sample_group_descriptions = <<>>,
     !.sample_to_groups = <<>>,
     !.header.sample_description_index = 1,
     !.header.flags = {"kDefaultBaseIsMoofMask",
                       "kSampleDescriptionIndexPresentMask"}]

(* InitializedTraf that adds its two header flags to those already set. *)
InitializedTraf_KeepsHeaderFlags(t, first_sample_dts) ==
  [t EXCEPT
     !.decode_time = first_sample_dts,
     !.runs = <<[EmptyRun EXCEPT !.flags = {"kDataOffsetPresentMask"}]>>,
     !.sample_group_descriptions = <<>>,
     !.sample_to_groups = <<>>,
     !.header.sample_description_index = 1,
     !.header.flags = @ \cup {"kDefaultBaseIsMoofMask",
                              "kSampleDescriptionIndexPresentMask"}]

(* The state a TrackFragment is put in by InitializeFragment. *)
InitializedTraf(t, first_sample_dts) ==
  [t EXCEPT
     !.decode_time = first_sample_dts,
     !.runs = <<[EmptyRun EXCEPT !.flags = {"kDataOffsetPresentMask"}]>>,
     !.sample_group_descriptions = <<>>,
     !.sample_to_groups = <<>>,
     !.header.sample_description_index = 1,
     !.header.flags = {"kDefaultBaseIsMoofMask",
                       "kSampleDescriptionIndexPresentMask"}]


(* AppendSample that stores a composition offset only when it is not 0. *)
AppendSample_SkipsZeroOffset(t, s) ==
  [t EXCEPT
     !.runs[1].sample_sizes = Append(@, s.data_size),
     !.runs[1].sample_durations = Append(@, s.duration),
     !.runs[1].sample_flags = Append(@, SampleFlagsOf(s.is_key_frame)),
     !.runs[1].sample_composition_time_offsets =
        IF s.pts # s.dts THEN Append(@, s.pts - s.dts) ELSE @,
     !.runs[1].flags = UpdateCompOffsetFlag(@, s.pts, s.dts)]

(* The appends of AddSample to runs[0]. *)
AppendSample(t, s) ==
  [t EXCEPT
     !.runs[1].sample_sizes = Append(@, s.data_size),
     !.runs[1].sample_durations = Append(@, s.duration),
     !.runs[1].sample_flags = Append(@, SampleFlagsOf(s.is_key_frame)),
     !.runs[1].sample_composition_time_offsets = Append(@, s.pts - s.dts),
     !.runs[1].flags = UpdateCompOffsetFlag(@, s.pts, s.dts)]

(* OptimizeSampleEntries(entries, default_value): when all entries are     *)
(* equal the array is dropped and the value becomes the default. On an     *)
(* empty array the first element is read out of bounds: the value that     *)
(* becomes the default is any value of the field's domain.                 *)
OptimizeSampleEntries(entries, old_default, domain) ==
  IF entries = <<>>
    THEN {[optimized |-> TRUE, entries |-> <<>>, default_value |-> v] :
            v \in domain}
  ELSE IF \A i \in 1..Len(entries) : entries[i] = entries[1]
    THEN {[optimized |-> TRUE, entries |-> <<>>,
           default_value |-> entries[1]]}
  ELSE {[optimized |-> FALSE, entries |-> entries,
         default_value |-> old_default]}


(* OptimizedTraf with the size decision taken from the duration outcome. *)
OptimizedTraf_SizeFollowsDuration(t, od, os, of) ==
  [t EXCEPT
     !.runs[1].sample_count = Len(t.runs[1].sample_sizes),
     !.runs[1].sample_durations = od.entries,
     !.runs[1].sample_sizes = os.entries,
     !.runs[1].sample_flags = of.entries,
     !.header.default_sample_duration = od.default_value,
     !.header.default_sample_size = os.default_value,
     !.header.default_sample_flags = of.default_value,
     !.header.flags =
        @ \cup (IF od.optimized
                  THEN {"kDefaultSampleDurationPresentMask",
                        "kDefaultSampleSizePresentMask"} ELSE {})
          \cup (IF of.optimized
                  THEN {"kDefaultSampleFlagsPresentMask"} ELSE {}),
     !.runs[1].flags =
        @ \cup (IF od.optimized THEN {}
                ELSE {"kSampleDurationPresentMask", "kSampleSizePresentMask"})
          \cup (IF of.optimized THEN {} ELSE {"kSampleFlagsPresentMask"})]

(* The trun optimisation of FinalizeFragment: sample_count is taken from   *)
(* the sizes array first, then each of durations, sizes and flags is       *)
(* either promoted to a header default or flagged as present in the run.   *)
(* od, os, of are the outcomes of the three OptimizeSampleEntries calls.   *)
OptimizedTraf(t, od, os, of) ==
  [t EXCEPT
     !.runs[1].sample_count = Len(t.runs[1].sample_sizes),
     !.runs[1].sample_durations = od.entries,
     !.runs[1].sample_sizes = os.entries,
     !.runs[1].sample_flags = of.entries,
     !.header.default_sample_duration = od.default_value,
     !.header.default_sample_size = os.default_value,
     !.header.default_sample_flags = of.default_value,
     !.header.flags =
        @ \cup (IF od.optimized
                  THEN {"kDefaultSampleDurationPresentMask"} ELSE {})
          \cup (IF os.optimized
                  THEN {"kDefaultSampleSizePresentMask"} ELSE {})
          \cup (IF of.optimized
                  THEN {"kDefaultSampleFlagsPresentMask"} ELSE {}),
     !.runs[1].flags =
        @ \cup (IF od.optimized THEN {} ELSE {"kSampleDurationPresentMask"})
          \cup (IF os.optimized THEN {} ELSE {"kSampleSizePresentMask"})
          \cup (IF of.optimized THEN {} ELSE {"kSampleFlagsPresentMask"})]


(* RollSampleToGroups with >= in place of >. *)
RollSampleToGroups_AlsoForZero(seek_preroll, sample_count) ==
  IF seek_preroll >= 0
    THEN <<[grouping_type |-> "roll",
            entries |-> <<[sample_count |-> sample_count,
                           group_description_index |->
                             kTrackGroupDescriptionIndexBase + 1]>>]>>
  ELSE <<>>

(* The 'roll' SampleToGroup box added when there is seek preroll. *)
RollSampleToGroups(seek_preroll, sample_count) ==
  IF seek_preroll > 0
    THEN <<[grouping_type |-> "roll",
            entries |-> <<[sample_count |-> sample_count,
                           group_description_index |->
                             kTrackGroupDescriptionIndexBase + 1]>>]>>
  ELSE <<>>

(* One SampleToGroup box per SampleGroupDescription of the fragment. *)
DescriptionSampleToGroups(descriptions, sample_count) ==
  [i \in 1..Len(descriptions) |->
     [grouping_type |-> descriptions[i].grouping_type,
      entries |-> <<[sample_count |-> sample_count,
                     group_description_index |->
                       kTrackFragmentGroupDescriptionIndexBase + 1]>>]]

(* WithSampleToGroups that puts the 'roll' box after the others. *)
WithSampleToGroups_RollLast(t, seek_preroll) ==
  [t EXCEPT !.sample_to_groups =
     @ \o DescriptionSampleToGroups(t.sample_group_descriptions,
                                    t.runs[1].sample_count)
       \o RollSampleToGroups(seek_preroll, t.runs[1].sample_count)]

(* The SampleToGroup part of FinalizeFragment. *)
WithSampleToGroups(t, seek_preroll) ==
  [t EXCEPT !.sample_to_groups =
     @ \o RollSampleToGroups(seek_preroll, t.runs[1].sample_count)
       \o DescriptionSampleToGroups(t.sample_group_descriptions,
                                    t.runs[1].sample_count)]


(* StartsWithSAP reading the header default whatever the run flags say. *)
StartsWithSAP_AlwaysDefault(t) ==
  (t.header.default_sample_flags \div kNonKeySampleMask) % 2 = 0

(* Fragmenter::StartsWithSAP *)
StartsWithSAP(t) ==
  LET start_sample_flag ==
        IF "kSampleFlagsPresentMask" \in t.runs[1].flags
          THEN t.runs[1].sample_flags[1]
        ELSE t.header.default_sample_flags
  IN  (start_sample_flag \div kNonKeySampleMask) % 2 = 0

(* SegmentReferenceOf that reports the first SAP time as the earliest     *)
(* presentation time.                                                     *)
SegmentReferenceOf_SapAsEarliest(t, duration, first_sap, earliest) ==
  [valid |-> TRUE,
   reference_type |-> FALSE,
   subsegment_duration |-> duration,
   starts_with_sap |-> StartsWithSAP(t),
   sap_type |-> IF kInvalidTime = first_sap THEN "TypeUnknown" ELSE "Type1",
   sap_delta_time |-> IF kInvalidTime = first_sap THEN 0
                      ELSE first_sap - earliest,
   earliest_presentation_time |-> first_sap]

(* The SegmentReference written by GenerateSegmentReference. *)
SegmentReferenceOf(t, duration, first_sap, earliest) ==
  [valid |-> TRUE,
   reference_type |-> FALSE,
   subsegment_duration |-> duration,
   starts_with_sap |-> StartsWithSAP(t),
   sap_type |-> IF kInvalidTime = first_sap THEN "TypeUnknown" ELSE "Type1",
   sap_delta_time |-> IF kInvalidTime = first_sap THEN 0
                      ELSE first_sap - earliest,
   earliest_presentation_time |-> earliest]

----------------------------------------------------------------------------
(* The fragment builder: state machine.                                    *)

(* Fragmenter::Fragmenter on a default-constructed TrackFragment. *)
InitFrag ==
  /\ use_decoding_timestamp \in BOOLEAN
  /\ stream_info \in StreamInfos
  /\ seek_preroll_ = GetSeekPreroll(stream_info)
  /\ fragment_initialized_ = FALSE
  /\ fragment_finalized_ = FALSE
  /\ fragment_duration_ = 0
  /\ earliest_presentation_time_ = kInvalidTime
  /\ first_sap_time_ = kInvalidTime
  /\ data_ = NullBuffer
  /\ traf = EmptyTraf
  /\ reference = NoReference
  /\ added = <<>>
  /\ since_finalize = <<>>
  /\ aborted = FALSE

(* Fragmenter::InitializeFragment(first_sample_dts) *)
InitializeFragment(first_sample_dts) ==
  /\ ~aborted
  /\ since_finalize' = <<>>
  /\ fragment_initialized_' = TRUE
  /\ fragment_finalized_' = FALSE
  /\ traf' = InitializedTraf(traf, first_sample_dts)
  /\ fragment_duration_' = 0
  /\ earliest_presentation_time_' = kInvalidTime
  /\ first_sap_time_' = kInvalidTime
  /\ data_' = 0
  /\ reference' = NoReference
  /\ added' = <<>>
  /\ UNCHANGED <<use_decoding_timestamp, stream_info, seek_preroll_, aborted,
                 avcVars,
                 twoVars>>

(* NeedsInitialize that asks for InitializeFragment on every sample. *)
NeedsInitialize_Always(initialized) == TRUE

(* if (!fragment_initialized_): AddSample initializes the fragment first. *)
NeedsInitialize(initialized) == ~initialized

(* AddSampleRejected with the CHECK placed after the lazy initialize. *)
AddSampleRejected_AfterInitialize(sample) ==
  /\ ~aborted
  /\ ~(sample.duration > 0)
  /\ aborted' = TRUE
  /\ IF fragment_initialized_
       THEN UNCHANGED <<fragment_initialized_, fragment_finalized_,
                        fragment_duration_, earliest_presentation_time_,
                        first_sap_time_, data_, traf, added>>
     ELSE /\ fragment_initialized_' = TRUE
          /\ fragment_finalized_' = FALSE
          /\ traf' = InitializedTraf(traf, sample.dts)
          /\ fragment_duration_' = 0
          /\ earliest_presentation_time_' = kInvalidTime
          /\ first_sap_time_' = kInvalidTime
          /\ data_' = 0
          /\ added' = <<>>
  /\ UNCHANGED <<use_decoding_timestamp, stream_info, seek_preroll_,
                 reference, since_finalize, avcVars,
                 twoVars>>

(* AddSample of a sample that fails CHECK_GT(sample->duration(), 0): the   *)
(* process ends at line 56, before anything is written.                    *)
AddSampleRejected(sample) ==
  /\ ~aborted
  /\ ~(sample.duration > 0)
  /\ aborted' = TRUE
  /\ UNCHANGED <<use_decoding_timestamp, stream_info, seek_preroll_,
                 fragment_initialized_, fragment_finalized_,
                 fragment_duration_, earliest_presentation_time_,
                 first_sap_time_, data_, traf, reference, added,
                 since_finalize, avcVars,
                 twoVars>>

(* AddSample of a sample that passes the CHECK. *)
AddSampleAccepted(sample) ==
  /\ ~aborted
  /\ sample.duration > 0
  /\ Len(IF fragment_initialized_ THEN since_finalize ELSE <<>>) < MaxSamples
  /\ since_finalize' =
       Append(IF fragment_initialized_ THEN since_finalize ELSE <<>>, sample)
  /\ LET init == NeedsInitialize(fragment_initialized_)
         t0 == IF init THEN InitializedTraf(traf, sample.dts) ELSE traf
         duration0 == IF init THEN 0 ELSE fragment_duration_
         earliest0 == IF init THEN kInvalidTime
                      ELSE earliest_presentation_time_
         first_sap0 == IF init THEN kInvalidTime ELSE first_sap_time_
         data0 == IF init THEN 0 ELSE data_
         timestamp == SelectedTimestamp(use_decoding_timestamp,
                                        sample.pts, sample.dts)
     IN  /\ fragment_initialized_' = TRUE
         /\ fragment_finalized_' = (IF init THEN FALSE ELSE fragment_finalized_)
         /\ traf' = AppendSample(t0, sample)
         /\ data_' = data0 + sample.data_size
         /\ fragment_duration_' = duration0 + sample.duration
         /\ earliest_presentation_time_' = UpdateEarliest(earliest0, timestamp)
         /\ first_sap_time_' =
              UpdateFirstSap(first_sap0, sample.is_key_frame, sample.pts)
         /\ added' = Append(IF init THEN <<>> ELSE added, sample)
  /\ reference' = NoReference
  /\ UNCHANGED <<use_decoding_timestamp, stream_info, seek_preroll_, aborted,
                 avcVars,
                 twoVars>>

(* Fragmenter::AddSample(sample) *)
AddSample(sample) ==
  \/ AddSampleRejected(sample)
  \/ AddSampleAccepted(sample)

(* An upstream collaborator attaches a SampleGroupDescription to the open  *)
(* fragment before it is finalized.                                        *)
AttachSampleGroupDescription(grouping_type) ==
  /\ ~aborted
  /\ fragment_initialized_
  /\ Len(traf.sample_group_descriptions) < MaxDescriptions
  /\ traf' = [traf EXCEPT !.sample_group_descriptions =
                Append(@, [grouping_type |-> grouping_type])]
  /\ reference' = NoReference
  /\ UNCHANGED <<use_decoding_timestamp, stream_info, seek_preroll_, aborted,
                 fragment_initialized_,
                 fragment_finalized_, fragment_duration_,
                 earliest_presentation_time_, first_sap_time_, data_, added,
                 since_finalize,
                 avcVars,
                 twoVars>>

(* Fragmenter::FinalizeFragment, called on an open fragment. *)
FinalizeFragment ==
  /\ ~aborted
  /\ fragment_initialized_
  /\ \E od \in OptimizeSampleEntries(traf.runs[1].sample_durations,
                  traf.header.default_sample_duration, DurationValues),
        os \in OptimizeSampleEntries(traf.runs[1].sample_sizes,
                  traf.header.default_sample_size, SizeValues),
        of \in OptimizeSampleEntries(traf.runs[1].sample_flags,
                  traf.header.default_sample_flags, {0, kNonKeySampleMask}) :
       traf' = WithSampleToGroups(OptimizedTraf(traf, od, os, of),
                                  seek_preroll_)
  /\ fragment_finalized_' = TRUE
  /\ fragment_initialized_' = FALSE
  /\ reference' = NoReference
  /\ UNCHANGED <<use_decoding_timestamp, stream_info, seek_preroll_, aborted,
                 fragment_duration_,
                 earliest_presentation_time_, first_sap_time_, data_, added,
                 since_finalize,
                 avcVars,
                 twoVars>>

(* Fragmenter::GenerateSegmentReference(reference), after finalize. *)
GenerateSegmentReference ==
  /\ ~aborted
  /\ fragment_finalized_
  /\ reference' = SegmentReferenceOf(traf, fragment_duration_,
                                     first_sap_time_,
                                     earliest_presentation_time_)
  /\ UNCHANGED <<use_decoding_timestamp, stream_info, seek_preroll_, aborted,
                 fragment_initialized_,
                 fragment_finalized_, fragment_duration_,
                 earliest_presentation_time_, first_sap_time_, data_, traf,
                 added, since_finalize, avcVars,
                 twoVars>>

Next ==
  \/ \E dts \in DtsValues : InitializeFragment(dts)
  \/ \E sample \in MediaSamples \cup RejectedSamples : AddSample(sample)
  \/ \E grouping_type \in GroupingTypes :
       AttachSampleGroupDescription(grouping_type)
  \/ FinalizeFragment
  \/ GenerateSegmentReference

----------------------------------------------------------------------------
(* The AVC decoder configuration record: inputs.                           *)

H264_SPS == 7     \* Nalu::H264_SPS
H264_PPS == 8     \* Nalu::H264_PPS

(* Bytes of the records handed to Parse. 103 = 0x67 is the header of an    *)
(* SPS NAL unit, 104 = 0x68 of a PPS, 109 = 0x6d of an SPS extension.      *)
VersionBytes == {1, 2}
ProfileBytes == {66, 100, 110, 122, 144}
LengthSizeBytes == {252, 253, 254, 255, 2}
NumSpsBytes == {224, 225, 33, 226}
SpsLists ==
  {<<>>,
   <<0, 2, 103, 5>>,               \* one well-formed SPS
   <<0, 2, 103, 0>>,               \* an SPS that does not decode
   <<0, 2, 103, 1>>,               \* an SPS without a resolution
   <<0, 1, 104>>,                  \* a PPS where an SPS is expected
   <<0, 2, 103, 5, 0, 2, 103, 0>>} \* two SPS, the second never decoded
PpsCountBytes == {0, 1, 33}
PpsLists == {<<>>, <<0, 1, 104>>, <<0, 1, 103>>, <<0, 0>>}
Tails ==
  {<<>>, <<0, 0, 0>>, <<0, 0, 0, 0>>,
   <<0, 0, 0, 1, 0, 1, 104>>, <<0, 0, 0, 1, 0, 1, 109>>,
   <<0, 0, 0, 33, 0, 1, 104>>}

(* The records handed to Parse: a version, a profile, a compatibility and  *)
(* a level byte, a length-size byte, an SPS count byte, SPS units, a PPS   *)
(* count byte, PPS units and a tail, cut after any number of bytes.        *)
ConfigRecord(v, p, l, n, s, c, q, t) ==
  <<v, p, 0, 31, l, n>> \o s \o <<c>> \o q \o t

----------------------------------------------------------------------------
(* The AVC decoder configuration record: parser.                           *)

(* The members of a newly constructed record. *)
EmptyRecord ==
  [data_ |-> <<>>, nalu_ |-> <<>>, nalu_length_size_ |-> 0,
   version_ |-> 0, profile_indication_ |-> 0, profile_compatibility_ |-> 0,
   avc_level_ |-> 0, transfer_characteristics_ |-> 0,
   coded_width_ |-> 0, coded_height_ |-> 0,
   pixel_width_ |-> 0, pixel_height_ |-> 0]

(* BufferReader over data, pos counted from 0. *)
HasBytes(data, pos, count) == pos + count <= Len(data)
Read1(data, pos) == data[pos + 1]
Read2(data, pos) == data[pos + 1] * 256 + data[pos + 2]

(* Nalu::Initialize(Nalu::kH264, data, size): fails on an empty unit and   *)
(* on a set forbidden_zero_bit.                                            *)
NaluInitialize(nalu_data) ==
  /\ Len(nalu_data) > 0
  /\ nalu_data[1] < 128

(* Nalu::type() of an H.264 unit: the low 5 bits of its header byte. *)
NaluType(nalu_data) == nalu_data[1] % 32

(* H264Parser::ParseSps followed by ExtractResolutionFromSps, reduced to   *)
(* one payload byte b: b = 0 does not decode, b = 1 decodes but yields no  *)
(* resolution, any other b decodes to a resolution derived from b.         *)
ParseSps(nalu_data) ==
  IF Len(nalu_data) < 2 \/ nalu_data[2] = 0
    THEN [status |-> "kInvalidStream"]
  ELSE [status |-> "kOk",
        transfer_characteristics |-> nalu_data[2],
        has_resolution |-> nalu_data[2] # 1,
        coded_width |-> 16 * nalu_data[2],
        coded_height |-> 8 * nalu_data[2],
        pixel_width |-> 1, pixel_height |-> 1]

Fail(rec, pos) == [ok |-> FALSE, rec |-> rec, pos |-> pos]
Pass(rec, pos) == [ok |-> TRUE, rec |-> rec, pos |-> pos]

(* Lines 26-28: version, profile_indication, profile_compatibility and     *)
(* level, each stored in its member as soon as it is read.                 *)
ReadHeader(rec, data) ==
  IF ~HasBytes(data, 0, 1) THEN Fail(rec, 0)
  ELSE LET r1 == [rec EXCEPT !.version_ = Read1(data, 0)]
       IN  IF r1.version_ # 1 THEN Fail(r1, 1)
           ELSE IF ~HasBytes(data, 1, 1) THEN Fail(r1, 1)
           ELSE LET r2 == [r1 EXCEPT !.profile_indication_ = Read1(data, 1)]
                IN  IF ~HasBytes(data, 2, 1) THEN Fail(r2, 2)
                    ELSE LET r3 == [r2 EXCEPT !.profile_compatibility_ =
                                                 Read1(data, 2)]
                         IN  IF ~HasBytes(data, 3, 1) THEN Fail(r3, 3)
                             ELSE Pass([r3 EXCEPT !.avc_level_ =
                                                     Read1(data, 3)], 4)


(* ReadLengthSize that takes 3 for the reserved encoding. *)
ReadLengthSize_Rejects3(st, data) ==
  IF ~HasBytes(data, st.pos, 1) THEN Fail(st.rec, st.pos)
  ELSE LET length_size_minus_one == Read1(data, st.pos)
       IN  IF length_size_minus_one % 4 = 3 THEN Fail(st.rec, st.pos + 1)
           ELSE Pass([st.rec EXCEPT !.nalu_length_size_ =
                                       (length_size_minus_one % 4) + 1],
                     st.pos + 1)

(* Lines 30-36: the NALU length size. *)
ReadLengthSize(st, data) ==
  IF ~HasBytes(data, st.pos, 1) THEN Fail(st.rec, st.pos)
  ELSE LET length_size_minus_one == Read1(data, st.pos)
       IN  IF length_size_minus_one % 4 = 2 THEN Fail(st.rec, st.pos + 1)
           ELSE Pass([st.rec EXCEPT !.nalu_length_size_ =
                                       (length_size_minus_one % 4) + 1],
                     st.pos + 1)

(* Lines 60-67: the first SPS is decoded for the resolution. *)
DecodeFirstSps(rec, nalu_data, pos) ==
  LET sps == ParseSps(nalu_data)
  IN  IF sps.status # "kOk" THEN Fail(rec, pos)
      ELSE LET r1 == [rec EXCEPT !.transfer_characteristics_ =
                                   sps.transfer_characteristics]
           IN  IF ~sps.has_resolution THEN Fail(r1, pos)
               ELSE Pass([r1 EXCEPT !.coded_width_ = sps.coded_width,
                                    !.coded_height_ = sps.coded_height,
                                    !.pixel_width_ = sps.pixel_width,
                                    !.pixel_height_ = sps.pixel_height], pos)

(* The body of the three unit loops (lines 45-69, 73-83, 101-111) from     *)
(* index i on: a 2-byte length, the unit, its classification against      *)
(* expected_type, AddNalu, and for the SPS loop the decode of unit 0.      *)
RECURSIVE ReadNalus(_, _, _, _, _, _)
ReadNalus(st, data, count, expected_type, decode_first, i) ==
  IF i >= count THEN st
  ELSE IF ~HasBytes(data, st.pos, 2) THEN Fail(st.rec, st.pos)
  ELSE
    LET size == Read2(data, st.pos)
        start == st.pos + 2
    IN  IF ~HasBytes(data, start, size) THEN Fail(st.rec, start)
        ELSE
          LET nalu_data == SubSeq(data, start + 1, start + size)
              pos == start + size
          IN  IF ~NaluInitialize(nalu_data) THEN Fail(st.rec, pos)
              ELSE IF NaluType(nalu_data) # expected_type
                THEN Fail(st.rec, pos)
              ELSE
                LET r1 == [st.rec EXCEPT !.nalu_ = Append(@, nalu_data)]
                    st1 == IF decode_first /\ i = 0
                             THEN DecodeFirstSps(r1, nalu_data, pos)
                           ELSE Pass(r1, pos)
                IN  IF ~st1.ok THEN st1
                    ELSE ReadNalus(st1, data, count, expected_type,
                                   decode_first, i + 1)

(* ReadSpsList without the mask on the count. *)
ReadSpsList_Unmasked(st, data) ==
  IF ~HasBytes(data, st.pos, 1) THEN Fail(st.rec, st.pos)
  ELSE ReadNalus(Pass(st.rec, st.pos + 1), data,
                 Read1(data, st.pos), H264_SPS, TRUE, 0)

(* Lines 38-69: the SPS count, masked to 5 bits, and the SPS units. *)
ReadSpsList(st, data) ==
  IF ~HasBytes(data, st.pos, 1) THEN Fail(st.rec, st.pos)
  ELSE ReadNalus(Pass(st.rec, st.pos + 1), data,
                 Read1(data, st.pos) % 32, H264_SPS, TRUE, 0)

(* Lines 71-83: the PPS count and the PPS units. *)
ReadPpsList(st, data) ==
  IF ~HasBytes(data, st.pos, 1) THEN Fail(st.rec, st.pos)
  ELSE ReadNalus(Pass(st.rec, st.pos + 1), data,
                 Read1(data, st.pos), H264_PPS, FALSE, 0)

(* Line 86-87: the profiles that carry the extension block. *)
HasProfileExtension(profile_indication) ==
  profile_indication \in {100, 110, 122, 144}

(* ReadProfileExtension that fails when the 4 bytes are not there. *)
ReadProfileExtension_RequiresBlock(st, data) ==
  IF ~HasProfileExtension(st.rec.profile_indication_) THEN st
  ELSE IF ~HasBytes(data, st.pos, 4) THEN Fail(st.rec, st.pos)
  ELSE ReadNalus(Pass(st.rec, st.pos + 4), data,
                 Read1(data, st.pos + 3), H264_PPS, FALSE, 0)

(* Lines 85-113: the profile special case. *)
ReadProfileExtension(st, data) ==
  IF ~HasProfileExtension(st.rec.profile_indication_) THEN st
  ELSE IF ~HasBytes(data, st.pos, 4) THEN st
  ELSE ReadNalus(Pass(st.rec, st.pos + 4), data,
                 Read1(data, st.pos + 3), H264_PPS, FALSE, 0)

(* AVCDecoderConfigurationRecord::ParseInternal over the members rec. *)
ParseInternal(rec) ==
  LET data == rec.data_
      s1 == ReadHeader(rec, data)
      s2 == IF s1.ok THEN ReadLengthSize(s1, data) ELSE s1
      s3 == IF s2.ok THEN ReadSpsList(s2, data) ELSE s2
      s4 == IF s3.ok THEN ReadPpsList(s3, data) ELSE s3
      s5 == IF s4.ok THEN ReadProfileExtension(s4, data) ELSE s4
  IN  s5

InitAvc ==
  /\ record = EmptyRecord
  /\ parse_ok = "none"

(* DecoderConfigurationRecord::Parse(data): stores the bytes, clears the   *)
(* unit list and runs ParseInternal. A record is parsed once.              *)
Parse(data) ==
  /\ parse_ok = "none"
  /\ LET result == ParseInternal([record EXCEPT !.data_ = data,
                                                !.nalu_ = <<>>])
     IN  /\ record' = result.rec
         /\ parse_ok' = IF result.ok THEN "true" ELSE "false"
  /\ UNCHANGED <<fragVars, twoVars>>

NextAvc ==
  /\ parse_ok = "none"
  /\ \E v \in VersionBytes, p \in ProfileBytes, l \in LengthSizeBytes,
        n \in NumSpsBytes, s \in SpsLists, c \in PpsCountBytes,
        q \in PpsLists, t \in Tails :
       \E len \in 0..Len(ConfigRecord(v, p, l, n, s, c, q, t)) :
         Parse(SubSeq(ConfigRecord(v, p, l, n, s, c, q, t), 1, len))

----------------------------------------------------------------------------
(* Two fragment builders of one process, each bound to its own             *)
(* TrackFragment. What the two have in common is the process-wide flag     *)
(* use_decoding_timestamp, which AddSample reads and nothing writes.       *)

(* The members of a Fragmenter constructed on info and bound to the        *)
(* TrackFragment number traf_. *)
FragmenterNew(info, traf_index) ==
  [traf_ |-> traf_index,
   seek_preroll_ |-> GetSeekPreroll(info),
   fragment_initialized_ |-> FALSE,
   fragment_finalized_ |-> FALSE,
   fragment_duration_ |-> 0,
   earliest_presentation_time_ |-> kInvalidTime,
   first_sap_time_ |-> kInvalidTime,
   data_ |-> NullBuffer,
   reference |-> NoReference]

(* Fragmenter::InitializeFragment on the members b and the fragment t. *)
FragmenterInitializeFragment(b, t, first_sample_dts) ==
  [b |-> [b EXCEPT !.fragment_initialized_ = TRUE,
                   !.fragment_finalized_ = FALSE,
                   !.fragment_duration_ = 0,
                   !.earliest_presentation_time_ = kInvalidTime,
                   !.first_sap_time_ = kInvalidTime,
                   !.data_ = 0,
                   !.reference = NoReference],
   t |-> InitializedTraf(t, first_sample_dts)]

(* Fragmenter::AddSample of an accepted sample on b and t. *)
FragmenterAddSample(b, t, sample, use_dts) ==
  LET s0 == IF NeedsInitialize(b.fragment_initialized_)
              THEN FragmenterInitializeFragment(b, t, sample.dts)
            ELSE [b |-> b, t |-> t]
      timestamp == SelectedTimestamp(use_dts, sample.pts, sample.dts)
  IN  [b |-> [s0.b EXCEPT
                !.data_ = @ + sample.data_size,
                !.fragment_duration_ = @ + sample.duration,
                !.earliest_presentation_time_ = UpdateEarliest(@, timestamp),
                !.first_sap_time_ =
                   UpdateFirstSap(@, sample.is_key_frame, sample.pts),
                !.reference = NoReference],
       t |-> AppendSample(s0.t, sample)]

(* Fragmenter::FinalizeFragment on b and t; the fragment has a sample, so  *)
(* each OptimizeSampleEntries call has one outcome.                        *)
FragmenterFinalizeFragment(b, t) ==
  LET od == CHOOSE o \in OptimizeSampleEntries(t.runs[1].sample_durations,
                      t.header.default_sample_duration, DurationValues) : TRUE
      os == CHOOSE o \in OptimizeSampleEntries(t.runs[1].sample_sizes,
                      t.header.default_sample_size, SizeValues) : TRUE
      of == CHOOSE o \in OptimizeSampleEntries(t.runs[1].sample_flags,
                      t.header.default_sample_flags,
                      {0, kNonKeySampleMask}) : TRUE
  IN  [b |-> [b EXCEPT !.fragment_finalized_ = TRUE,
                       !.fragment_initialized_ = FALSE,
                       !.reference = NoReference],
       t |-> WithSampleToGroups(OptimizedTraf(t, od, os, of),
                                b.seek_preroll_)]

(* Fragmenter::GenerateSegmentReference on b and t. *)
FragmenterGenerateSegmentReference(b, t) ==
  [b |-> [b EXCEPT !.reference =
            SegmentReferenceOf(t, b.fragment_duration_, b.first_sap_time_,
                               b.earliest_presentation_time_)],
   t |-> t]

(* The calls of one builder. *)
BuilderSamples ==
  {s \in MediaSamples : s.pts = 0 /\ s.duration = 1 /\ s.data_size = 1}
BuilderCalls ==
  [op : {"AddSample"}, sample : BuilderSamples] \cup
  [op : {"FinalizeFragment", "GenerateSegmentReference"},
   sample : {BaseSample}]
BuilderInfos ==
  <<[stream_type |-> "audio", seek_preroll_ns |-> 5],
    [stream_type |-> "video", seek_preroll_ns |-> 0]>>

(* The call is one the caller may make in the state b. *)
CallAllowed(b, call) ==
  CASE call.op = "AddSample" -> TRUE
    [] call.op = "FinalizeFragment" -> b.fragment_initialized_
    [] call.op = "GenerateSegmentReference" -> b.fragment_finalized_

(* What the call makes of b and t. *)
CallResult(b, t, call, use_dts) ==
  CASE call.op = "AddSample" ->
         FragmenterAddSample(b, t, call.sample, use_dts)
    [] call.op = "FinalizeFragment" -> FragmenterFinalizeFragment(b, t)
    [] call.op = "GenerateSegmentReference" ->
         FragmenterGenerateSegmentReference(b, t)

(* Builders 1 and 2, constructed on TrackFragments 1 and 2. *)
InitTwo ==
  /\ builders = [k \in {1, 2} |-> FragmenterNew(BuilderInfos[k], k)]
  /\ trafs = [k \in {1, 2} |-> EmptyTraf]
  /\ calls = [k \in {1, 2} |-> <<>>]

(* BuilderCall with fragment_duration_ kept in one place for all builders  *)
(* (a static member).                                                      *)
BuilderCall_SharedDuration(k, call) ==
  /\ Len(calls[k]) < MaxCalls
  /\ CallAllowed(builders[k], call)
  /\ LET result == CallResult(builders[k], trafs[builders[k].traf_], call,
                              use_decoding_timestamp)
     IN  /\ builders' =
              [j \in {1, 2} |->
                 IF j = k THEN result.b
                 ELSE [builders[j] EXCEPT !.fragment_duration_ =
                                            result.b.fragment_duration_]]
         /\ trafs' = [trafs EXCEPT ![builders[k].traf_] = result.t]
  /\ calls' = [calls EXCEPT ![k] = Append(@, call)]
  /\ UNCHANGED <<fragVars, avcVars>>

(* Builder k serves one call; the TrackFragment written is the one its     *)
(* traf_ points to.                                                        *)
BuilderCall(k, call) ==
  /\ Len(calls[k]) < MaxCalls
  /\ CallAllowed(builders[k], call)
  /\ LET result == CallResult(builders[k], trafs[builders[k].traf_], call,
                              use_decoding_timestamp)
     IN  /\ builders' = [builders EXCEPT ![k] = result.b]
         /\ trafs' = [trafs EXCEPT ![builders[k].traf_] = result.t]
  /\ calls' = [calls EXCEPT ![k] = Append(@, call)]
  /\ UNCHANGED <<fragVars, avcVars>>

NextTwo == \E k \in {1, 2}, call \in BuilderCalls : BuilderCall(k, call)

----------------------------------------------------------------------------
Init == InitFrag /\ InitTwo /\ InitAvc

Spec == Init /\ [][Next]_vars

(* A caller that leaves InitializeFragment to AddSample. *)
NextLazy ==
  \/ \E sample \in MediaSamples \cup RejectedSamples : AddSample(sample)
  \/ \E grouping_type \in GroupingTypes :
       AttachSampleGroupDescription(grouping_type)
  \/ FinalizeFragment
  \/ GenerateSegmentReference

SpecLazy == Init /\ [][NextLazy]_vars

(* One record, parsed beside a builder that is never used. *)
InitRecord ==
  Init /\ ~use_decoding_timestamp /\ stream_info.stream_type = "video"

SpecAvc == InitRecord /\ [][NextAvc]_vars

(* Two builders side by side; the single builder of Spec is never used. *)
InitBuilders == Init /\ stream_info.stream_type = "video"

SpecTwo == InitBuilders /\ [][NextTwo]_vars

----------------------------------------------------------------------------
(* Properties of the fragment builder.                                     *)

(* What the samples added to the current fragment say, read from the       *)
(* history variable only.                                                  *)
AddedDurations == [i \in 1..Len(added) |-> added[i].duration]
AddedSizes == [i \in 1..Len(added) |-> added[i].data_size]
AddedFlags ==
  [i \in 1..Len(added) |-> IF added[i].is_key_frame THEN 0 ELSE 65536]
AddedTimestamps ==
  {IF use_decoding_timestamp THEN added[i].dts ELSE added[i].pts :
     i \in 1..Len(added)}
Uniform(values) == \A i \in 1..Len(values) : values[i] = values[1]
Minimum(S) == CHOOSE m \in S : \A x \in S : m <= x
KeyFrames == {i \in 1..Len(added) : added[i].is_key_frame}

(* The law of one field: collapsed to the header default, or kept as the   *)
(* explicit array.                                                         *)
DefaultOrExplicit(values, default_value, default_bit, array, present_bit) ==
  IF Uniform(values)
    THEN /\ default_value = values[1]
         /\ default_bit \in traf.header.flags
         /\ present_bit \notin traf.runs[1].flags
  ELSE /\ present_bit \in traf.runs[1].flags
       /\ array = values

(* C1: after FinalizeFragment of a fragment with N >= 1 samples, each of   *)
(* duration, size and flags on its own is either uniform, and then the     *)
(* header default holds the value, the default-present bit is set and the  *)
(* run's presence bit is clear, or not uniform, and then the run's         *)
(* presence bit is set and the array holds the N values in order.          *)
C1_DefaultsOrExplicitArrays ==
  (fragment_finalized_ /\ Len(added) >= 1) =>
    /\ DefaultOrExplicit(AddedDurations, traf.header.default_sample_duration,
                         "kDefaultSampleDurationPresentMask",
                         traf.runs[1].sample_durations,
                         "kSampleDurationPresentMask")
    /\ DefaultOrExplicit(AddedSizes, traf.header.default_sample_size,
                         "kDefaultSampleSizePresentMask",
                         traf.runs[1].sample_sizes,
                         "kSampleSizePresentMask")
    /\ DefaultOrExplicit(AddedFlags, traf.header.default_sample_flags,
                         "kDefaultSampleFlagsPresentMask",
                         traf.runs[1].sample_flags,
                         "kSampleFlagsPresentMask")

(* A finalized fragment of two samples with one duration, two sizes and    *)
(* both kinds of frame.                                                    *)
C1_Witness ==
  /\ fragment_finalized_
  /\ Len(added) = 2
  /\ Uniform(AddedDurations)
  /\ ~Uniform(AddedSizes)
  /\ ~Uniform(AddedFlags)
  /\ traf.header.default_sample_duration = 1
  /\ traf.runs[1].sample_sizes = AddedSizes

(* C2: the starts_with_sap written for a finalized fragment with at least  *)
(* one sample is true exactly when the first sample added was a key frame. *)
C2_StartsWithSapIsFirstSampleKey ==
  (reference.valid /\ Len(added) >= 1) =>
    (reference.starts_with_sap <=> added[1].is_key_frame)

(* A reference of a fragment whose flags were kept as an array and whose   *)
(* first sample is not a key frame while the stale default says key frame. *)
C2_Witness ==
  /\ reference.valid
  /\ Len(added) >= 2
  /\ "kSampleFlagsPresentMask" \in traf.runs[1].flags
  /\ ~added[1].is_key_frame
  /\ ~reference.starts_with_sap

(* C3: the reference of a finalized fragment has sap_type Type1 and        *)
(* sap_delta_time = (presentation time of the first key frame added) -     *)
(* earliest_presentation_time when a key frame was added, and sap_type     *)
(* Unknown and sap_delta_time 0 when none was.                             *)
C3_SapTypeAndDelta ==
  reference.valid =>
    IF KeyFrames # {}
      THEN /\ reference.sap_type = "Type1"
           /\ reference.sap_delta_time =
                added[Minimum(KeyFrames)].pts - earliest_presentation_time_
    ELSE /\ reference.sap_type = "TypeUnknown"
         /\ reference.sap_delta_time = 0

(* C4: while a fragment is open and has a sample, earliest presentation    *)
(* time is the minimum of the selected timestamps of the samples added to  *)
(* it, and it never increases from one AddSample to the next.              *)
C4_EarliestIsMinimum ==
  /\ []((fragment_initialized_ /\ Len(added) >= 1) =>
          earliest_presentation_time_ = Minimum(AddedTimestamps))
  /\ [][(fragment_initialized_ /\ Len(added) >= 1
           /\ Len(added') = Len(added) + 1) =>
          earliest_presentation_time_' <= earliest_presentation_time_]_vars

(* An open fragment whose earliest time came down with the last sample. *)
C4_Witness ==
  /\ fragment_initialized_
  /\ Len(added) = 2
  /\ SelectedTimestamp(use_decoding_timestamp, added[1].pts, added[1].dts) = 1
  /\ earliest_presentation_time_ = 0
  /\ use_decoding_timestamp

RECURSIVE SumOf(_)
SumOf(values) ==
  IF values = <<>> THEN 0
  ELSE values[Len(values)] + SumOf(SubSeq(values, 1, Len(values) - 1))

(* The per-sample value in force for sample i of the finalized run: the    *)
(* array entry when the run's presence bit is set, else the header default.*)
EffectiveDuration(i) ==
  IF "kSampleDurationPresentMask" \in traf.runs[1].flags
    THEN traf.runs[1].sample_durations[i]
  ELSE traf.header.default_sample_duration
EffectiveSize(i) ==
  IF "kSampleSizePresentMask" \in traf.runs[1].flags
    THEN traf.runs[1].sample_sizes[i]
  ELSE traf.header.default_sample_size
EffectiveFlags(i) ==
  IF "kSampleFlagsPresentMask" \in traf.runs[1].flags
    THEN traf.runs[1].sample_flags[i]
  ELSE traf.header.default_sample_flags

(* The state InitializeFragment leaves behind. *)
InitializedPost ==
  /\ fragment_duration_ = 0
  /\ earliest_presentation_time_ = kInvalidTime
  /\ first_sap_time_ = kInvalidTime
  /\ Len(traf.runs) = 1
  /\ traf.runs[1].sample_sizes = <<>>
  /\ traf.runs[1].sample_durations = <<>>
  /\ traf.runs[1].sample_flags = <<>>
  /\ traf.runs[1].sample_composition_time_offsets = <<>>
  /\ traf.sample_group_descriptions = <<>>
  /\ traf.sample_to_groups = <<>>
  /\ data_ = 0

(* The accumulators as the samples added since InitializeFragment give     *)
(* them.                                                                   *)
AccumulatorsFromAdded ==
  /\ fragment_duration_ = SumOf(AddedDurations)
  /\ data_ = SumOf(AddedSizes)
  /\ earliest_presentation_time_ =
       (IF added = <<>> THEN kInvalidTime ELSE Minimum(AddedTimestamps))
  /\ LET recorded == {i \in KeyFrames : added[i].pts # kInvalidTime}
     IN  first_sap_time_ =
           (IF recorded = {} THEN kInvalidTime
            ELSE added[Minimum(recorded)].pts)

(* The finalized Track Fragment as those samples give it. *)
TrackFragmentFromAdded ==
  /\ traf.runs[1].sample_count = Len(added)
  /\ \A i \in 1..Len(added) :
       /\ EffectiveDuration(i) = added[i].duration
       /\ EffectiveSize(i) = added[i].data_size
       /\ EffectiveFlags(i) = AddedFlags[i]
       /\ traf.runs[1].sample_composition_time_offsets[i] =
            added[i].pts - added[i].dts
  /\ traf.runs[1].flags =
       {"kDataOffsetPresentMask"}
       \cup (IF \E i \in 1..Len(added) : added[i].pts # added[i].dts
               THEN {"kSampleCompTimeOffsetsPresentMask"} ELSE {})
       \cup (IF Uniform(AddedDurations) THEN {}
             ELSE {"kSampleDurationPresentMask"})
       \cup (IF Uniform(AddedSizes) THEN {} ELSE {"kSampleSizePresentMask"})
       \cup (IF Uniform(AddedFlags) THEN {} ELSE {"kSampleFlagsPresentMask"})
  /\ traf.header.flags =
       {"kDefaultBaseIsMoofMask", "kSampleDescriptionIndexPresentMask"}
       \cup (IF Uniform(AddedDurations)
               THEN {"kDefaultSampleDurationPresentMask"} ELSE {})
       \cup (IF Uniform(AddedSizes)
               THEN {"kDefaultSampleSizePresentMask"} ELSE {})
       \cup (IF Uniform(AddedFlags)
               THEN {"kDefaultSampleFlagsPresentMask"} ELSE {})
  /\ Len(traf.sample_to_groups) =
       (IF seek_preroll_ > 0 THEN 1 ELSE 0)
       + Len(traf.sample_group_descriptions)
  /\ \A g \in 1..Len(traf.sample_to_groups) :
       traf.sample_to_groups[g].entries[1].sample_count = Len(added)

(* The Segment Reference as those samples give it. *)
ReferenceFromAdded ==
  /\ reference.subsegment_duration = SumOf(AddedDurations)
  /\ reference.earliest_presentation_time =
       (IF added = <<>> THEN kInvalidTime ELSE Minimum(AddedTimestamps))
  /\ Len(added) >= 1 => (reference.starts_with_sap <=> added[1].is_key_frame)
  /\ LET recorded == {i \in KeyFrames : added[i].pts # kInvalidTime}
     IN  IF recorded = {}
           THEN /\ reference.sap_type = "TypeUnknown"
                /\ reference.sap_delta_time = 0
         ELSE /\ reference.sap_type = "Type1"
              /\ reference.sap_delta_time =
                   added[Minimum(recorded)].pts - Minimum(AddedTimestamps)

(* C5: InitializeFragment, from any state of the builder, leaves fragment  *)
(* duration 0, the two times unset, the run arrays, the sample group       *)
(* descriptions and the sample-to-group mappings empty and an empty        *)
(* payload buffer; the accumulators, the finalized Track Fragment (its     *)
(* values in force) and the Segment Reference are those of the samples     *)
(* added after that call alone.                                            *)
C5_InitializeFragmentResets ==
  /\ [][(\E dts \in DtsValues : InitializeFragment(dts)) =>
          InitializedPost']_vars
  /\ [](traf.runs # <<>> => AccumulatorsFromAdded)
  /\ [](fragment_finalized_ => TrackFragmentFromAdded)
  /\ [](reference.valid => ReferenceFromAdded)

(* A reference of a later fragment with explicit durations, built on a     *)
(* Track Fragment whose header still carries a default duration of an      *)
(* earlier fragment.                                                       *)
C5_Witness ==
  /\ reference.valid
  /\ Len(added) = 2
  /\ ~Uniform(AddedDurations)
  /\ traf.header.default_sample_duration # 0
  /\ reference.subsegment_duration = 3

(* C8: with a seek preroll above 0 a finalized fragment has exactly one    *)
(* 'roll' sample-to-group mapping, with one entry whose sample_count is    *)
(* the fragment's sample count and whose index is the track-level one;     *)
(* with a seek preroll of 0, and for every stream that is not audio,       *)
(* FinalizeFragment adds no 'roll' mapping.                                *)
C8_RollMappingIffSeekPreroll ==
  fragment_finalized_ =>
    LET groups == traf.sample_to_groups
        roll == {g \in 1..Len(groups) : groups[g].grouping_type = "roll"}
    IN  IF stream_info.stream_type = "audio"
           /\ stream_info.seek_preroll_ns > 0
          THEN /\ Cardinality(roll) = 1
               /\ \A g \in roll :
                    groups[g].entries =
                      <<[sample_count |-> Len(added),
                         group_description_index |-> 1]>>
        ELSE /\ roll = {}
             /\ Len(groups) = Len(traf.sample_group_descriptions)

(* A finalized audio fragment of two samples with its 'roll' mapping       *)
(* beside the mapping of an attached description.                          *)
C8_Witness ==
  /\ fragment_finalized_
  /\ seek_preroll_ > 0
  /\ Len(added) = 2
  /\ Len(traf.sample_to_groups) = 2
  /\ traf.sample_to_groups[1].grouping_type = "roll"

(* C9: the composition-offsets-present flag of a finalized fragment is set *)
(* exactly when one of its samples has a presentation time other than its  *)
(* decode time, whatever earlier fragments of the builder held.            *)
C9_CompositionOffsetsFlag ==
  fragment_finalized_ =>
    ("kSampleCompTimeOffsetsPresentMask" \in traf.runs[1].flags
       <=> \E i \in 1..Len(added) : added[i].pts # added[i].dts)

(* A finalized fragment with the flag set by its second sample alone. *)
C9_Witness ==
  /\ fragment_finalized_
  /\ Len(added) = 2
  /\ added[1].pts = added[1].dts
  /\ added[2].pts # added[2].dts
  /\ "kSampleCompTimeOffsetsPresentMask" \in traf.runs[1].flags

(* C10 as stated: after FinalizeFragment the sizes, durations, flags and   *)
(* composition-time offsets arrays all have the length sample_count, the   *)
(* number of samples added.                                                *)
C10_ArraysHaveSampleCountEntries ==
  fragment_finalized_ =>
    /\ traf.runs[1].sample_count = Len(added)
    /\ Len(traf.runs[1].sample_sizes) = traf.runs[1].sample_count
    /\ Len(traf.runs[1].sample_durations) = traf.runs[1].sample_count
    /\ Len(traf.runs[1].sample_flags) = traf.runs[1].sample_count
    /\ Len(traf.runs[1].sample_composition_time_offsets) =
         traf.runs[1].sample_count

(* C10 amended: after FinalizeFragment sample_count is the number of       *)
(* samples added, the composition-time offsets array has sample_count     *)
(* entries, and each of the sizes, durations and flags arrays has          *)
(* sample_count entries when the run's presence bit of its field is set    *)
(* and is empty when the field was promoted to the header default.         *)
C10_ArraysPresentOrEmpty ==
  fragment_finalized_ =>
    LET run == traf.runs[1]
        LengthOf(array, present_bit) ==
          Len(array) = IF present_bit \in run.flags THEN run.sample_count
                       ELSE 0
    IN  /\ run.sample_count = Len(added)
        /\ Len(run.sample_composition_time_offsets) = run.sample_count
        /\ LengthOf(run.sample_sizes, "kSampleSizePresentMask")
        /\ LengthOf(run.sample_durations, "kSampleDurationPresentMask")
        /\ LengthOf(run.sample_flags, "kSampleFlagsPresentMask")

(* A finalized fragment of two samples that keeps its sizes and has        *)
(* dropped its durations.                                                  *)
C10_Witness ==
  /\ fragment_finalized_
  /\ traf.runs[1].sample_count = 2
  /\ Len(traf.runs[1].sample_sizes) = 2
  /\ Len(traf.runs[1].sample_durations) = 0
  /\ Len(traf.runs[1].sample_composition_time_offsets) = 2

----------------------------------------------------------------------------
(* Properties of the decoder configuration record.                         *)

(* C6: when the parse fails, none of version, profile, level, NAL unit     *)
(* length size, NAL unit list and resolution of the record holds a value   *)
(* taken from the rejected input.                                          *)
C6_NoPartialRecordOnFailure ==
  parse_ok = "false" =>
    /\ record.version_ = EmptyRecord.version_
    /\ record.profile_indication_ = EmptyRecord.profile_indication_
    /\ record.profile_compatibility_ = EmptyRecord.profile_compatibility_
    /\ record.avc_level_ = EmptyRecord.avc_level_
    /\ record.nalu_length_size_ = EmptyRecord.nalu_length_size_
    /\ record.nalu_ = EmptyRecord.nalu_
    /\ record.coded_width_ = EmptyRecord.coded_width_
    /\ record.coded_height_ = EmptyRecord.coded_height_
    /\ record.pixel_width_ = EmptyRecord.pixel_width_
    /\ record.pixel_height_ = EmptyRecord.pixel_height_

(* C7: the parse fails when the first byte is not 1 and when the low two   *)
(* bits of the length-size byte are 2, whatever the other bytes are; after *)
(* a successful parse version is 1 and nalu_length_size is the low two     *)
(* bits of the length-size byte plus 1: one of 1, 2 and 4, never 3.        *)
C7_VersionAndLengthSize ==
  parse_ok # "none" =>
    LET data == record.data_
    IN  /\ (Len(data) >= 1 /\ data[1] # 1) => parse_ok = "false"
        /\ (Len(data) >= 5 /\ data[5] % 4 = 2) => parse_ok = "false"
        /\ parse_ok = "true" =>
             /\ record.version_ = 1
             /\ Len(data) >= 5
             /\ record.nalu_length_size_ = (data[5] % 4) + 1
             /\ record.nalu_length_size_ \in {1, 2, 4}

(* A record parsed with 4-byte NAL unit lengths, an SPS and a PPS. *)
C7_Witness ==
  /\ parse_ok = "true"
  /\ record.nalu_length_size_ = 4
  /\ Len(record.nalu_) = 2
  /\ record.coded_width_ > 0

----------------------------------------------------------------------------
(* Further properties of the fragment builder.                             *)

(* C11: AddSample of a sample with duration <= 0 ends the process before   *)
(* it touches anything: the Track Fragment, the payload buffer, the        *)
(* accumulators and the Open / Finalized state are as they were before     *)
(* the call, without a lazy initialize and without an appended entry.      *)
C11_RejectedSampleTouchesNothing ==
  [][(aborted' /\ ~aborted) =>
       UNCHANGED <<traf, data_, fragment_duration_,
                   earliest_presentation_time_, first_sap_time_,
                   fragment_initialized_, fragment_finalized_>>]_vars

(* A sample refused by a builder whose fragment is finalized: the builder  *)
(* is not Open, so an accepted sample would have initialized a fragment.   *)
C11_Witness ==
  /\ aborted
  /\ fragment_finalized_
  /\ ~fragment_initialized_
  /\ traf.runs[1].sample_count = 2

(* What a builder constructed on info and TrackFragment traf_index makes   *)
(* of the calls when it runs alone.                                        *)
RECURSIVE Alone(_, _, _)
Alone(info, traf_index, call_sequence) ==
  IF call_sequence = <<>>
    THEN [b |-> FragmenterNew(info, traf_index), t |-> EmptyTraf]
  ELSE LET before ==
             Alone(info, traf_index,
                   SubSeq(call_sequence, 1, Len(call_sequence) - 1))
       IN  CallResult(before.b, before.t, call_sequence[Len(call_sequence)],
                      use_decoding_timestamp)

----------------------------------------------------------------------------
(* Further properties of the decoder configuration record.                 *)

(* The layout of the record format, read off the bytes alone: count units  *)
(* from position pos on, each a 2-byte big-endian length and that many     *)
(* bytes.                                                                  *)
RECURSIVE SplitUnits(_, _, _)
SplitUnits(data, pos, count) ==
  IF count = 0 THEN [ok |-> TRUE, units |-> <<>>, pos |-> pos]
  ELSE IF pos + 2 > Len(data) THEN [ok |-> FALSE, units |-> <<>>, pos |-> pos]
  ELSE
    LET size == 256 * data[pos + 1] + data[pos + 2]
    IN  IF pos + 2 + size > Len(data)
          THEN [ok |-> FALSE, units |-> <<>>, pos |-> pos]
        ELSE
          LET rest == SplitUnits(data, pos + 2 + size, count - 1)
          IN  [ok |-> rest.ok,
               units |-> <<SubSeq(data, pos + 3, pos + 2 + size)>>
                           \o rest.units,
               pos |-> rest.pos]

(* The SPS list and the PPS list of the bytes. *)
SpsLayout(data) ==
  IF Len(data) < 6 THEN [ok |-> FALSE, units |-> <<>>, pos |-> Len(data)]
  ELSE SplitUnits(data, 6, data[6] % 32)
PpsLayout(data) ==
  LET sps == SpsLayout(data)
  IN  IF ~sps.ok \/ Len(data) < sps.pos + 1
        THEN [ok |-> FALSE, units |-> <<>>, pos |-> Len(data)]
      ELSE SplitUnits(data, sps.pos + 1, data[sps.pos + 1])
ExtensionLayout(data) ==
  LET pps == PpsLayout(data)
  IN  SplitUnits(data, pps.pos + 4, data[pps.pos + 4])

(* Every unit is a well-formed NAL unit of the type. *)
AllOfType(units, type) ==
  \A i \in 1..Len(units) :
    NaluInitialize(units[i]) /\ NaluType(units[i]) = type

(* Some unit is a NAL unit of another type. *)
SomeOfOtherType(units, type) ==
  \E i \in 1..Len(units) :
    NaluInitialize(units[i]) /\ NaluType(units[i]) # type

(* The bytes are a good record up to the end of the PPS list. *)
GoodUpToPps(data) ==
  /\ Len(data) >= 6
  /\ data[1] = 1
  /\ data[5] % 4 # 2
  /\ SpsLayout(data).ok
  /\ AllOfType(SpsLayout(data).units, 7)
  /\ SpsLayout(data).units # <<>> =>
       LET sps == ParseSps(SpsLayout(data).units[1])
       IN  sps.status = "kOk" /\ sps.has_resolution
  /\ PpsLayout(data).ok
  /\ AllOfType(PpsLayout(data).units, 8)

(* C13: the extension block is processed only for profile_indication 100,  *)
(* 110, 122 and 144. With fewer than 4 bytes after the PPS list the parse  *)
(* succeeds without an extension unit; with 4 or more, 3 bytes are         *)
(* skipped, a count byte is read unmasked and the parse succeeds exactly   *)
(* when that many length-prefixed units follow and all classify as PPS.    *)
(* For any other profile_indication the trailing bytes are ignored and     *)
(* the parse succeeds.                                                     *)
C13_ProfileExtensionBlock ==
  (parse_ok # "none" /\ GoodUpToPps(record.data_)) =>
    LET data == record.data_
        base == SpsLayout(data).units \o PpsLayout(data).units
        remaining == Len(data) - PpsLayout(data).pos
    IN  IF data[2] \notin {100, 110, 122, 144} \/ remaining < 4
          THEN parse_ok = "true" /\ record.nalu_ = base
        ELSE IF ExtensionLayout(data).ok
                /\ AllOfType(ExtensionLayout(data).units, 8)
          THEN /\ parse_ok = "true"
               /\ record.nalu_ = base \o ExtensionLayout(data).units
        ELSE parse_ok = "false"

(* A record of profile 122 parsed with one extension unit after an SPS     *)
(* and a PPS.                                                              *)
C13_Witness ==
  /\ parse_ok = "true"
  /\ record.profile_indication_ = 122
  /\ Len(record.nalu_) = 3
  /\ NaluType(record.nalu_[3]) = 8
  /\ Len(SpsLayout(record.data_).units) = 1

(* The result of the parse of data: success and every member but data_. *)
ParseOutcome(data) ==
  LET result == ParseInternal([EmptyRecord EXCEPT !.data_ = data])
  IN  <<result.ok, [result.rec EXCEPT !.data_ = <<>>]>>

(* C14: after a successful parse the NAL unit list is, in input order,     *)
(* (SPS count byte & 0x1f) SPS units, then (PPS count byte) PPS units,     *)
(* then the extension units if the block was processed; the upper 3 bits   *)
(* of the SPS count byte do not change the result; the parse fails when a  *)
(* unit's length exceeds the bytes that remain and when a unit is of       *)
(* another type than its position asks for.                                *)
C14_UnitListInInputOrder ==
  parse_ok # "none" =>
    LET data == record.data_
        sps == SpsLayout(data)
        pps == PpsLayout(data)
        processed == /\ data[2] \in {100, 110, 122, 144}
                     /\ Len(data) - pps.pos >= 4
        extension == IF processed THEN ExtensionLayout(data).units ELSE <<>>
    IN  /\ parse_ok = "true" =>
             /\ Len(sps.units) = data[6] % 32
             /\ Len(pps.units) = data[sps.pos + 1]
             /\ AllOfType(sps.units, 7)
             /\ AllOfType(pps.units \o extension, 8)
             /\ record.nalu_ = sps.units \o pps.units \o extension
        /\ Len(data) >= 6 =>
             ParseOutcome([data EXCEPT ![6] = data[6] % 32]) =
               ParseOutcome(data)
        /\ (Len(data) >= 6 /\ ~sps.ok) => parse_ok = "false"
        /\ (sps.ok /\ Len(data) > sps.pos /\ ~pps.ok) => parse_ok = "false"
        /\ (sps.ok /\ SomeOfOtherType(sps.units, 7)) => parse_ok = "false"
        /\ (pps.ok /\ SomeOfOtherType(pps.units, 8)) => parse_ok = "false"
        /\ (pps.ok /\ processed /\ data[1] = 1 /\ data[5] % 4 # 2
              /\ AllOfType(sps.units, 7) /\ AllOfType(pps.units, 8)
              /\ (~ExtensionLayout(data).ok
                    \/ SomeOfOtherType(ExtensionLayout(data).units, 8))) =>
             parse_ok = "false"

(* A record parsed with two SPS, whose count byte has its upper bits set,  *)
(* and one PPS.                                                            *)
C14_Witness ==
  /\ parse_ok = "true"
  /\ record.data_[6] = 226
  /\ Len(record.nalu_) = 3
  /\ NaluType(record.nalu_[2]) = 7
  /\ NaluType(record.nalu_[3]) = 8

----------------------------------------------------------------------------
(* Fragments built by AddSample and FinalizeFragment alone.                *)

(* The finalized run holds the samples, in order, by their values in       *)
(* force.                                                                  *)
RunHolds(samples) ==
  /\ traf.runs[1].sample_count = Len(samples)
  /\ \A i \in 1..Len(samples) :
       /\ EffectiveDuration(i) = samples[i].duration
       /\ EffectiveSize(i) = samples[i].data_size
       /\ EffectiveFlags(i) = (IF samples[i].is_key_frame THEN 0 ELSE 65536)
       /\ traf.runs[1].sample_composition_time_offsets[i] =
            samples[i].pts - samples[i].dts

(* C15: AddSample on a builder that is not Open runs InitializeFragment    *)
(* with the sample's decode time first; AddSample on an Open builder keeps *)
(* the fragment and appends to it. So, when the caller only adds samples   *)
(* and finalizes, the decode base time of a fragment is the decode time of *)
(* the first sample added after construction or after the previous         *)
(* finalize, and a finalized fragment holds exactly the samples added      *)
(* since then.                                                             *)
C15_LazyInitializeOnFirstSample ==
  /\ [][(~fragment_initialized_
           /\ \E sample \in MediaSamples : AddSampleAccepted(sample)) =>
          /\ traf'.decode_time = since_finalize'[1].dts
          /\ Len(since_finalize') = 1
          /\ Len(traf'.runs[1].sample_sizes) = 1
          /\ fragment_duration_' = since_finalize'[1].duration
          /\ ~fragment_finalized_']_vars
  /\ [][(fragment_initialized_
           /\ \E sample \in MediaSamples : AddSampleAccepted(sample)) =>
          /\ traf'.decode_time = traf.decode_time
          /\ Len(traf'.runs[1].sample_sizes) =
               Len(traf.runs[1].sample_sizes) + 1
          /\ fragment_duration_' > fragment_duration_
          /\ traf'.sample_group_descriptions =
               traf.sample_group_descriptions]_vars
  /\ []((fragment_initialized_ \/ fragment_finalized_) =>
          traf.decode_time = since_finalize[1].dts)
  /\ [](fragment_finalized_ => RunHolds(since_finalize))

(* A second fragment of two samples, finalized, whose decode base time 1   *)
(* is that of its first sample and not that of its last.                   *)
C15_Witness ==
  /\ fragment_finalized_
  /\ Len(since_finalize) = 2
  /\ since_finalize[1].dts = 1
  /\ since_finalize[2].dts = 0
  /\ traf.decode_time = 1
  /\ traf.header.default_sample_duration # 0
  /\ "kSampleDurationPresentMask" \in traf.runs[1].flags

----------------------------------------------------------------------------
C17_ReferenceDurationIsSumOfFragment ==
  reference.valid =>
    /\ reference.subsegment_duration =
         SumOf([i \in 1..Len(since_finalize) |-> since_finalize[i].duration])
    /\ reference.earliest_presentation_time = earliest_presentation_time_

(* A reference of duration 3 for a fragment of two samples, of durations 1 *)
(* and 2, built after an earlier fragment on the same Track Fragment.      *)
C17_Witness ==
  /\ reference.valid
  /\ Len(since_finalize) = 2
  /\ since_finalize[1].duration = 1
  /\ since_finalize[2].duration = 2
  /\ reference.subsegment_duration = 3
  /\ traf.header.default_sample_duration # 0
  /\ reference.earliest_presentation_time = 0


(* Exactly one of the two presence bits of a field is set, and for a       *)
(* fragment with samples it is the one the values call for.                *)
OnePresenceBit(values, default_bit, present_bit) ==
  /\ (default_bit \in traf.header.flags) # (present_bit \in traf.runs[1].flags)
  /\ values # <<>> =>
       (Uniform(values) <=> default_bit \in traf.header.flags)

(* C18: in any sequence of fragments on one builder and Track Fragment,    *)
(* after each FinalizeFragment exactly one of the header's default-present *)
(* bit and the run's per-sample-present bit is set for each of duration,   *)
(* size and flags, and it is the one the values of this fragment call for, *)
(* whatever an earlier fragment had set.                                   *)
C18_ExactlyOnePresenceBit ==
  fragment_finalized_ =>
    /\ OnePresenceBit(
         [i \in 1..Len(since_finalize) |-> since_finalize[i].duration],
         "kDefaultSampleDurationPresentMask", "kSampleDurationPresentMask")
    /\ OnePresenceBit(
         [i \in 1..Len(since_finalize) |-> since_finalize[i].data_size],
         "kDefaultSampleSizePresentMask", "kSampleSizePresentMask")
    /\ OnePresenceBit(
         [i \in 1..Len(since_finalize) |-> since_finalize[i].is_key_frame],
         "kDefaultSampleFlagsPresentMask", "kSampleFlagsPresentMask")

(* A finalized fragment with explicit sizes and flags defaulted, on a      *)
(* Track Fragment whose earlier fragment had left a default size behind.   *)
C18_Witness ==
  /\ fragment_finalized_
  /\ Len(since_finalize) = 2
  /\ since_finalize[1].data_size # since_finalize[2].data_size
  /\ traf.header.default_sample_size # 0
  /\ "kSampleSizePresentMask" \in traf.runs[1].flags
  /\ "kDefaultSampleSizePresentMask" \notin traf.header.flags
  /\ "kDefaultSampleFlagsPresentMask" \in traf.header.flags


(* C19: the Segment Reference of a finalized fragment is self-consistent   *)
(* for every sample timestamp, the maximum value that stands for 'unset'   *)
(* included: starts_with_sap implies sap_type Type1, and sap_type is       *)
(* Unknown only when no key frame was added to the fragment.               *)
C19_ReferenceSelfConsistent ==
  reference.valid =>
    /\ reference.starts_with_sap => reference.sap_type = "Type1"
    /\ reference.sap_type = "TypeUnknown" =>
         \A i \in 1..Len(since_finalize) : ~since_finalize[i].is_key_frame

(* C20: the sap_delta_time of the Segment Reference of a finalized         *)
(* fragment is never negative, in the presentation-timestamp mode and in   *)
(* the decoding-timestamp mode, also when a presentation time is below the *)
(* decode time.                                                            *)
C20_SapDeltaNeverNegative ==
  reference.valid => reference.sap_delta_time >= 0

====
